---- MODULE Spec2Model ----
(***************************************************************************)
(* Model of src/deduplicacao_assinatura.py: deduplication of person        *)
(* records by record signature ("assinatura"), Jaccard and Levenshtein.    *)
(*                                                                         *)
(* Strings are sequences of one-character strings, so that lower(),        *)
(* re.sub(), split(), len() and levenshtein() are computed character by    *)
(* character.  Python None / SQL NULL is the sequence None, which is not a *)
(* sequence of characters of any alphabet used here.                       *)
(* Floating point numbers are exact fractions [num, den]; rounding of      *)
(* float/double arithmetic is not modelled.                                *)
(***************************************************************************)
EXTENDS Integers, Sequences, FiniteSets, TLC

VARIABLES
    pc,               \* statement the script (or the function under call) is at
    error,            \* exception raised, "" while none
    df,               \* input DataFrame: set of rows with unique id
    df_joined,        \* lines 49-54, then 57-62
    df_resultado,     \* lines 65-71, then 74-77
    df_ingestao,      \* lines 80 and 86
    df_log,           \* line 81
    cpfs_duplicados,  \* line 84
    df_unicos,        \* line 85
    args,             \* arguments of the function under call
    ret               \* its return value

vars == <<pc, error, df, df_joined, df_resultado, df_ingestao, df_log,
          cpfs_duplicados, df_unicos, args, ret>>

frames == <<df, df_joined, df_resultado, df_ingestao, df_log,
            cpfs_duplicados, df_unicos>>

----------------------------------------------------------------------------
(* Bounds *)

MaxLen == 5         \* longest name given to normalize_nome
MaxSigLen == 3      \* longest name given to gerar_assinatura
MaxFpLen == 3       \* longest string given to the scoring expressions
MaxRecords == 2     \* rows of df
ScoreDen == 20      \* scores given to the decision rules are k/ScoreDen

----------------------------------------------------------------------------
(* Values *)

None == <<"None">>

TAB == "\t"

WordChars == {"a", "b", "c", "d", "e", "f", "m", "n", "o", "s",
              "A", "D", "E", "O", "S", "1", "2", "_"}

SpaceChars == {" ", TAB}

Max(x, y) == IF x > y THEN x ELSE y

Min(x, y) == IF x < y THEN x ELSE y

RECURSIVE StringsUpTo(_, _)
StringsUpTo(alphabet, n) ==
    IF n = 0 THEN {<<>>}
    ELSE LET shorter == StringsUpTo(alphabet, n - 1)
         IN  shorter \cup {Append(s, c) : s \in shorter, c \in alphabet}

----------------------------------------------------------------------------
(* str methods and re *)

LowerChar(c) ==
    CASE c = "A" -> "a" [] c = "D" -> "d" [] c = "E" -> "e"
      [] c = "O" -> "o" [] c = "S" -> "s" [] OTHER -> c

lower(s) == [i \in 1..Len(s) |-> LowerChar(s[i])]

IsWord(s, i) == i >= 1 /\ i <= Len(s) /\ s[i] \in WordChars

IsSpace(s, i) == i >= 1 /\ i <= Len(s) /\ s[i] \in SpaceChars

\* \b just before position i (1..Len(s)+1)
WordBoundary(s, i) == IsWord(s, i - 1) # IsWord(s, i)

MatchAt(s, i, w) ==
    /\ i + Len(w) - 1 <= Len(s)
    /\ \A k \in 1..Len(w) : s[i + k - 1] = w[k]

\* the alternation (de|da|do|das|dos), tried left to right
Connectors == << <<"d", "e">>, <<"d", "a">>, <<"d", "o">>,
                 <<"d", "a", "s">>, <<"d", "o", "s">> >>

ConnectorMatchWholeWord(s, i, w) ==
    /\ WordBoundary(s, i)
    /\ MatchAt(s, i, w)
    /\ WordBoundary(s, i + Len(w))

ConnectorMatchSubstring(s, i, w) == MatchAt(s, i, w)

ConnectorMatch(s, i, w) == ConnectorMatchWholeWord(s, i, w)

\* length of the match of \b(de|da|do|das|dos)\b at position i, 0 if none
ConnectorLen(s, i) ==
    LET hits == {k \in 1..Len(Connectors) : ConnectorMatch(s, i, Connectors[k])}
    IN  IF hits = {} THEN 0
        ELSE Len(Connectors[CHOOSE k \in hits : \A h \in hits : k <= h])

\* re.sub(r"\b(de|da|do|das|dos)\b", "", s), scanning from position i
RECURSIVE SubConnectors(_, _)
SubConnectors(s, i) ==
    IF i > Len(s) THEN <<>>
    ELSE LET n == ConnectorLen(s, i)
         IN  IF n > 0 THEN SubConnectors(s, i + n)
             ELSE <<s[i]>> \o SubConnectors(s, i + 1)

\* re.sub(r"\s+", " ", s), scanning from position i
RECURSIVE SubSpaces(_, _)
SubSpaces(s, i) ==
    IF i > Len(s) THEN <<>>
    ELSE IF IsSpace(s, i)
         THEN (IF IsSpace(s, i - 1) THEN <<>> ELSE <<" ">>) \o SubSpaces(s, i + 1)
         ELSE <<s[i]>> \o SubSpaces(s, i + 1)

RECURSIVE lstrip(_)
lstrip(s) == IF IsSpace(s, 1) THEN lstrip(Tail(s)) ELSE s

RECURSIVE rstrip(_)
rstrip(s) == IF IsSpace(s, Len(s)) THEN rstrip(SubSeq(s, 1, Len(s) - 1)) ELSE s

strip(s) == rstrip(lstrip(s))

\* str.split() with no separator: the maximal runs of non-whitespace
RECURSIVE SplitFrom(_, _, _)
SplitFrom(s, i, cur) ==
    IF i > Len(s) THEN (IF cur = <<>> THEN <<>> ELSE <<cur>>)
    ELSE IF IsSpace(s, i)
         THEN (IF cur = <<>> THEN <<>> ELSE <<cur>>) \o SplitFrom(s, i + 1, <<>>)
         ELSE SplitFrom(s, i + 1, Append(cur, s[i]))

split(s) == SplitFrom(s, 1, <<>>)

RECURSIVE JoinSpace(_)
JoinSpace(fields) ==
    IF Len(fields) = 0 THEN <<>>
    ELSE IF Len(fields) = 1 THEN fields[1]
    ELSE fields[1] \o <<" ">> \o JoinSpace(Tail(fields))

----------------------------------------------------------------------------
(* Funcoes auxiliares *)

normalize_nome(nome) ==
    strip(SubSpaces(SubConnectors(lower(nome), 1), 1))

\* a call either returns a value or raises
Return(v) == [raises |-> "", value |-> v]

Raise(e) == [raises |-> e, value |-> None]

\* Python objects that extract_first_last puts in its result
PyStr(s) == [type |-> "str", items |-> <<s>>]

PyTuple(items) == [type |-> "tuple", items |-> items]

\* repr() of a str without quote, backslash or unprintable character
StrRepr(s) == <<"'">> \o s \o <<"'">>

\* repr() of a tuple of two str
TupleRepr(items) ==
    <<"(">> \o StrRepr(items[1]) \o <<",", " ">> \o StrRepr(items[2]) \o <<")">>

\* what an f-string replacement field {v} writes for a str or None
Format(v) == IF v = None THEN <<"N", "o", "n", "e">> ELSE v

\* same, for the objects of extract_first_last
FormatPy(v) == IF v.type = "str" THEN v.items[1] ELSE TupleRepr(v.items)

\* the expression  x or ""
OrEmpty(x) == IF x = None \/ x = <<>> THEN <<>> ELSE x

\* return partes[0], (partes[-1] if len(partes) > 1 else (partes[0], partes[0]))
\* the conditional expression binds tighter than the comma
extract_first_last(nome) ==
    LET partes == split(strip(nome))
    IN  IF Len(partes) = 0 THEN Raise("IndexError")
        ELSE Return(<<PyStr(partes[1]),
                      IF Len(partes) > 1 THEN PyStr(partes[Len(partes)])
                      ELSE PyTuple(<<partes[1], partes[1]>>)>>)

gerar_assinatura(nome_aluno, data_nasc, nome_mae, sexo) ==
    LET aluno == extract_first_last(normalize_nome(OrEmpty(nome_aluno)))
        mae == extract_first_last(normalize_nome(OrEmpty(nome_mae)))
    IN  IF aluno.raises # "" THEN Raise(aluno.raises)
        ELSE IF mae.raises # "" THEN Raise(mae.raises)
        ELSE Return(JoinSpace(<<FormatPy(aluno.value[1]), FormatPy(aluno.value[2]),
                                Format(data_nasc),
                                FormatPy(mae.value[1]), FormatPy(mae.value[2]),
                                Format(sexo)>>))

assinatura_udf(nome_aluno, data_nasc, nome_mae, sexo) ==
    gerar_assinatura(nome_aluno, data_nasc, nome_mae, sexo)

----------------------------------------------------------------------------
(* Numbers: exact fractions, SQL NULL propagating through arithmetic *)

Frac(n, d) == [null |-> FALSE, num |-> n, den |-> d]

NullNum == [null |-> TRUE, num |-> 0, den |-> 1]

Int2Frac(n) == Frac(n, 1)

FAdd(x, y) ==
    IF x.null \/ y.null THEN NullNum
    ELSE Frac(x.num * y.den + y.num * x.den, x.den * y.den)

FSub(x, y) ==
    IF x.null \/ y.null THEN NullNum
    ELSE Frac(x.num * y.den - y.num * x.den, x.den * y.den)

FMul(x, y) ==
    IF x.null \/ y.null THEN NullNum
    ELSE Frac(x.num * y.num, x.den * y.den)

\* the / operator of Spark SQL: a zero divisor raises under
\* spark.sql.ansi.enabled and gives NULL otherwise
FDiv(x, y, ansi) ==
    IF x.null \/ y.null THEN Return(NullNum)
    ELSE IF y.num = 0 THEN (IF ansi THEN Raise("DIVIDE_BY_ZERO") ELSE Return(NullNum))
    ELSE Return(Frac(x.num * y.den, x.den * y.num))

\* SQL three-valued logic: "T", "F" or "N" (NULL)
SqlBool(b) == IF b THEN "T" ELSE "F"

SqlAnd(p, q) ==
    IF p = "F" \/ q = "F" THEN "F"
    ELSE IF p = "T" /\ q = "T" THEN "T"
    ELSE "N"

SqlEq(x, y) == IF x = None \/ y = None THEN "N" ELSE SqlBool(x = y)

SqlNe(x, y) == IF x = None \/ y = None THEN "N" ELSE SqlBool(x # y)

SqlIsNull(x) == SqlBool(x = None)

\* comparisons of fractions with positive denominators
FGe(x, y) ==
    IF x.null \/ y.null THEN "N" ELSE SqlBool(x.num * y.den >= y.num * x.den)

FLt(x, y) ==
    IF x.null \/ y.null THEN "N" ELSE SqlBool(x.num * y.den < y.num * x.den)

----------------------------------------------------------------------------
(* UDFs and column expressions *)

\* set(str.split())
TokenSet(s) == {split(s)[i] : i \in 1..Len(split(s))}

jaccard_udf(str1, str2) ==
    LET set1 == TokenSet(str1)
        set2 == TokenSet(str2)
        inter == Cardinality(set1 \cap set2)
        union == Cardinality(set1 \cup set2)
    IN  IF union # 0 THEN Frac(inter, union) ELSE Frac(0, 1)

\* one row of the edit-distance table: acc holds columns 0..j-1 of the row
\* of character c, prev the row above.  (The tests on Len make TLC compute
\* each cell before the next one is asked for.)
RECURSIVE LevRow(_, _, _, _, _)
LevRow(prev, c, t, j, acc) ==
    IF j > Len(t) THEN acc
    ELSE LET cell == Min(Min(prev[j + 1] + 1, acc[j] + 1),
                         prev[j] + (IF c = t[j] THEN 0 ELSE 1))
             row == Append(acc, cell)
         IN  IF Len(row) = j + 1 THEN LevRow(prev, c, t, j + 1, row) ELSE row

RECURSIVE LevRows(_, _, _, _)
LevRows(s, t, i, prev) ==
    IF i > Len(s) THEN prev[Len(t) + 1]
    ELSE LET row == LevRow(prev, s[i], t, 1, <<prev[1] + 1>>)
         IN  IF Len(row) = Len(t) + 1 THEN LevRows(s, t, i + 1, row) ELSE -1

\* pyspark.sql.functions.levenshtein on two non-null strings
levenshtein(s, t) == LevRows(s, t, 1, [j \in 1..(Len(t) + 1) |-> j - 1])

length(s) == Len(s)

W_JACCARD == Frac(3, 4)

W_LEV == Frac(1, 4)

THRESHOLD_OK == Frac(3, 4)

THRESHOLD_Q002 == Frac(3, 5)

\* when(length(a) > length(b), length(a)).otherwise(length(b))
len_max_min(fa, fb) == IF length(fa) > length(fb) THEN length(fb) ELSE length(fa)

len_max(fa, fb) == IF length(fa) > length(fb) THEN length(fa) ELSE length(fb)

\* the five withColumn of lines 57-62 on one joined row
score_columns(row, ansi) ==
    LET fa == row.a.assinatura
        fb == row.b.assinatura
        jaccard == jaccard_udf(fa, fb)
        lev_dist == levenshtein(fa, fb)
        lmax == len_max(fa, fb)
        quot == FDiv(Int2Frac(lev_dist), Int2Frac(lmax), ansi)
        lev_score == FSub(Int2Frac(1), quot.value)
        score_final == FAdd(FMul(W_JACCARD, jaccard), FMul(W_LEV, lev_score))
    IN  IF quot.raises # "" THEN Raise(quot.raises)
        ELSE Return([a |-> row.a, b |-> row.b, jaccard |-> jaccard,
                     lev_dist |-> lev_dist, len_max |-> lmax,
                     lev_score |-> lev_score, score_final |-> score_final])

Q001 == <<"Q", "0", "0", "1">>

Q002 == <<"Q", "0", "0", "2">>

Q006 == <<"Q", "0", "0", "6">>

OK == <<"O", "K">>

VALIDAR_NOMES == <<"V", "A", "L", "I", "D", "A", "R", "_", "N", "O", "M", "E", "S">>

\* the when chain with the score rule tried before the null-cpf rule
status_final_score_first(row) ==
    IF FGe(row.score_final, THRESHOLD_OK) = "T" THEN OK
    ELSE IF SqlIsNull(row.a.cpf) = "T" THEN Q001
    ELSE IF FLt(row.score_final, THRESHOLD_Q002) = "T" THEN Q002
    ELSE IF SqlAnd(SqlNe(row.a.data_nasc, row.b.data_nasc),
                   SqlNe(row.a.sexo, row.b.sexo)) = "T" THEN Q006
    ELSE VALIDAR_NOMES

\* the when(...).when(...).otherwise(...) chain of lines 65-71: the first
\* condition that is TRUE (not FALSE, not NULL) gives the value
status_final(row) ==
    IF SqlIsNull(row.a.cpf) = "T" THEN Q001
    ELSE IF FGe(row.score_final, THRESHOLD_OK) = "T" THEN OK
    ELSE IF FLt(row.score_final, THRESHOLD_Q002) = "T" THEN Q002
    ELSE IF SqlAnd(SqlNe(row.a.data_nasc, row.b.data_nasc),
                   SqlNe(row.a.sexo, row.b.sexo)) = "T" THEN Q006
    ELSE VALIDAR_NOMES

\* Column.startswith on a non-null string
startswith(s, prefix) ==
    Len(s) >= Len(prefix) /\ SubSeq(s, 1, Len(prefix)) = prefix

NoFrames ==
    /\ df = {}
    /\ df_joined = {}
    /\ df_resultado = {}
    /\ df_ingestao = {}
    /\ df_log = {}
    /\ cpfs_duplicados = {}
    /\ df_unicos = {}

----------------------------------------------------------------------------
(* normalize_nome called on a name, then on its own result *)

NormAlphabet == {"d", "a", "o", "s", "D", " ", TAB, "-"}

InitNormalize ==
    /\ pc = "normalize_nome"
    /\ error = ""
    /\ NoFrames
    /\ args \in {<<s>> : s \in StringsUpTo(NormAlphabet, MaxLen)}
    /\ ret = None

CallNormalize ==
    /\ pc = "normalize_nome"
    /\ ret' = normalize_nome(args[1])
    /\ pc' = "normalized"
    /\ UNCHANGED <<error, frames, args>>

CallNormalizeAgain ==
    /\ pc = "normalized"
    /\ args' = <<args[1], ret>>
    /\ ret' = normalize_nome(ret)
    /\ pc' = "renormalized"
    /\ UNCHANGED <<error, frames>>

NextNormalize == CallNormalize \/ CallNormalizeAgain

SpecNormalize == InitNormalize /\ [][NextNormalize]_vars

HasConnector(s) ==
    \E i \in 1..Len(s), k \in 1..Len(Connectors) :
        ConnectorMatchWholeWord(s, i, Connectors[k])

IsClean(s) ==
    /\ \A i \in 1..Len(s) : s[i] = LowerChar(s[i])
    /\ ~HasConnector(s)
    /\ \A i \in 1..Len(s) : IsSpace(s, i) => s[i] = " " /\ ~IsSpace(s, i + 1)
    /\ ~IsSpace(s, 1)
    /\ ~IsSpace(s, Len(s))

\* C9: normalize_nome is idempotent: its result is lowercase, has no
\* whole-word connector, no whitespace run, no leading or trailing
\* whitespace, and normalizing it again returns it unchanged.
C9_NormalizeIdempotent ==
    /\ pc \in {"normalized", "renormalized"} => IsClean(ret)
    /\ pc = "renormalized" => ret = args[2]

\* a name with a connector between other text was normalized twice
C9_Witness ==
    /\ pc = "renormalized"
    /\ HasConnector(lower(args[1]))
    /\ ret # <<>>
    /\ ret # args[1]

----------------------------------------------------------------------------
(* gerar_assinatura called on the four fields of one record *)

SigAlphabet == {"a", "d", " "}

SigNames == StringsUpTo(SigAlphabet, MaxSigLen) \cup {None}

InitAssinatura ==
    /\ pc = "gerar_assinatura"
    /\ error = ""
    /\ NoFrames
    /\ args \in {<<n, d, m, s>> : n \in SigNames, d \in {<<"1">>, None},
                                  m \in SigNames, s \in {<<"m">>, <<"f">>}}
    /\ ret = None

CallGerarAssinatura ==
    /\ pc = "gerar_assinatura"
    /\ ret' = gerar_assinatura(args[1], args[2], args[3], args[4])
    /\ pc' = "assinatura"
    /\ UNCHANGED <<error, frames, args>>

NextAssinatura == CallGerarAssinatura

SpecAssinatura == InitAssinatura /\ [][NextAssinatura]_vars

\* the whitespace-delimited tokens of a normalized name, absent read as ""
Tokens(nome) == split(normalize_nome(OrEmpty(nome)))

FirstToken(nome) == IF Tokens(nome) = <<>> THEN <<>> ELSE Tokens(nome)[1]

LastToken(nome) ==
    IF Tokens(nome) = <<>> THEN <<>> ELSE Tokens(nome)[Len(Tokens(nome))]

SixFields(a) ==
    JoinSpace(<<FirstToken(a[1]), LastToken(a[1]), Format(a[2]),
                FirstToken(a[3]), LastToken(a[3]), Format(a[4])>>)

\* C1: when the normalized name and mother's name each have a token, the
\* signature is first and last token of the name, birth token, first and
\* last token of the mother's name and sex, joined by single spaces (a
\* one-token name gives that token twice).
C1_SixFields ==
    (pc = "assinatura" /\ Tokens(args[1]) # <<>> /\ Tokens(args[3]) # <<>>)
        => (ret.raises = "" /\ ret.value = SixFields(args))

\* C2: gerar_assinatura never fails and never returns null; an absent or
\* empty name contributes empty components.
C2_NeverFails ==
    pc = "assinatura"
        => /\ ret.raises = ""
           /\ ret.value # None
           /\ (Tokens(args[1]) = <<>> \/ Tokens(args[3]) = <<>>)
                  => ret.value = SixFields(args)

----------------------------------------------------------------------------
(* the scoring expressions of lines 57-62 applied to two signatures *)

FpAlphabet == {"a", "b", " "}

InitScore ==
    /\ pc = "score_columns"
    /\ error = ""
    /\ NoFrames
    /\ args \in {<<fa, fb, ansi>> : fa \in StringsUpTo(FpAlphabet, MaxFpLen),
                                    fb \in StringsUpTo(FpAlphabet, MaxFpLen),
                                    ansi \in BOOLEAN}
    /\ ret = None

CallScoreColumns ==
    /\ pc = "score_columns"
    /\ ret' = score_columns([a |-> [assinatura |-> args[1]],
                             b |-> [assinatura |-> args[2]]], args[3])
    /\ pc' = "scored"
    /\ UNCHANGED <<error, frames, args>>

NextScore == CallScoreColumns

SpecScore == InitScore /\ [][NextScore]_vars

----------------------------------------------------------------------------
(* the decision rules of lines 65-71 applied to one scored pair *)

CpfInputs == {None, <<"1">>}

DataInputs == {None, <<"1">>, <<"2">>}

SexoInputs == {None, <<"m">>, <<"f">>}

InitStatus ==
    /\ pc = "status_final"
    /\ error = ""
    /\ NoFrames
    /\ args \in {<<[a |-> [cpf |-> c, data_nasc |-> da, sexo |-> sa],
                    b |-> [cpf |-> c, data_nasc |-> db, sexo |-> sb],
                    score_final |-> Frac(k, ScoreDen)]>> :
                    c \in CpfInputs, da \in DataInputs, db \in DataInputs,
                    sa \in SexoInputs, sb \in SexoInputs, k \in 0..ScoreDen}
    /\ ret = None

CallStatusFinal ==
    /\ pc = "status_final"
    /\ ret' = status_final(args[1])
    /\ pc' = "classified"
    /\ UNCHANGED <<error, frames, args>>

NextStatus == CallStatusFinal

SpecStatus == InitStatus /\ [][NextStatus]_vars

KeyMissing(row) == row.a.cpf = None

ScoreAtLeast(row, n, d) == row.score_final.num * d >= n * row.score_final.den

Differ(x, y) == x # None /\ y # None /\ x # y

\* C4: exactly one of the five statuses, by the first rule that matches:
\* key missing -> Q001 whatever the score; else score >= 0.75 -> OK; else
\* score < 0.60 -> Q002; else birth tokens differ and sexes differ -> Q006;
\* otherwise (one of them equal, or missing on a side) -> VALIDAR_NOMES.
C4_RuleTable ==
    pc = "classified" =>
        LET row == args[1]
            mid == ~KeyMissing(row) /\ ~ScoreAtLeast(row, 3, 4)
                       /\ ScoreAtLeast(row, 3, 5)
            both == Differ(row.a.data_nasc, row.b.data_nasc)
                       /\ Differ(row.a.sexo, row.b.sexo)
        IN  /\ ret \in {Q001, OK, Q002, Q006, VALIDAR_NOMES}
            /\ KeyMissing(row) <=> ret = Q001
            /\ (~KeyMissing(row) /\ ScoreAtLeast(row, 3, 4)) <=> ret = OK
            /\ (~KeyMissing(row) /\ ~ScoreAtLeast(row, 3, 5)) <=> ret = Q002
            /\ (mid /\ both) <=> ret = Q006
            /\ (mid /\ ~both) <=> ret = VALIDAR_NOMES

\* a pair without key whose score is at least 0.75 was classified
C4_Witness ==
    /\ pc = "classified"
    /\ KeyMissing(args[1])
    /\ ScoreAtLeast(args[1], 3, 4)
    /\ ret = Q001

----------------------------------------------------------------------------
(* Processo principal: the script, one action per statement.  DataFrames   *)
(* are evaluated when assigned; Spark defers the evaluation to the first   *)
(* action on them, which changes when an exception of a UDF shows, not     *)
(* which rows a DataFrame holds.                                           *)

NomeInputs == { <<"a", " ", "b">>,
                <<"A", " ", "d", "e", " ", " ", "b">>,
                <<"a">>,
                <<"d", "a">> }

NomeMaeInputs == { <<"e", " ", "f">> }

CpfValues == {None, <<"1">>, <<"2">>}

DataValues == {<<"1">>, <<"2">>}

SexoValues == {<<"m">>, <<"f">>}

ColumnsDf == {"id", "cpf", "nome", "data_nasc", "nome_mae", "sexo", "assinatura"}

ColumnsResultado == {"id_a", "id_b", "cpf", "score_final", "status_final"}

Init ==
    /\ pc = "read"
    /\ error = ""
    /\ NoFrames
    /\ args = <<>>
    /\ ret = None

\* "Leitura do DataFrame df com registros": one more row, with a fresh id
ReadRow ==
    /\ pc = "read"
    /\ Cardinality(df) < MaxRecords
    /\ \E c \in CpfValues, n \in NomeInputs, d \in DataValues,
          m \in NomeMaeInputs, s \in SexoValues :
          df' = df \cup {[id |-> Cardinality(df) + 1, cpf |-> c, nome |-> n,
                          data_nasc |-> d, nome_mae |-> m, sexo |-> s]}
    /\ UNCHANGED <<pc, error, df_joined, df_resultado, df_ingestao, df_log,
                   cpfs_duplicados, df_unicos, args, ret>>

Assinatura(r) == assinatura_udf(r.nome, r.data_nasc, r.nome_mae, r.sexo)

\* df = df.withColumn("assinatura", assinatura_udf(...))
WithAssinatura ==
    /\ pc = "read"
    /\ IF \E r \in df : Assinatura(r).raises # ""
       THEN /\ pc' = "failed"
            /\ error' = (CHOOSE e \in {Assinatura(r).raises : r \in df} : e # "")
            /\ df' = df
       ELSE /\ pc' = "join"
            /\ error' = error
            /\ df' = {[id |-> r.id, cpf |-> r.cpf, nome |-> r.nome,
                       data_nasc |-> r.data_nasc, nome_mae |-> r.nome_mae,
                       sexo |-> r.sexo, assinatura |-> Assinatura(r).value] :
                      r \in df}
    /\ UNCHANGED <<df_joined, df_resultado, df_ingestao, df_log,
                   cpfs_duplicados, df_unicos, args, ret>>

\* a join condition that only asks for different ids
join_condition_ne(a, b) ==
    SqlAnd(SqlAnd(SqlEq(a.cpf, b.cpf), SqlBool(a.id # b.id)),
           SqlNe(a.assinatura, b.assinatura))

\* (a.cpf == b.cpf) & (a.id < b.id) & (a.assinatura != b.assinatura)
join_condition(a, b) ==
    SqlAnd(SqlAnd(SqlEq(a.cpf, b.cpf), SqlBool(a.id < b.id)),
           SqlNe(a.assinatura, b.assinatura))

\* df.alias("a").join(df.alias("b"), condition): inner join
Join ==
    /\ pc = "join"
    /\ df_joined' = {[a |-> x, b |-> y] :
                     <<x, y>> \in {p \in df \X df : join_condition(p[1], p[2]) = "T"}}
    /\ pc' = "score"
    /\ UNCHANGED <<error, df, df_resultado, df_ingestao, df_log,
                   cpfs_duplicados, df_unicos, args, ret>>

\* df_joined = df_joined.withColumn("jaccard", ...) ... ("score_final", ...)
Score ==
    /\ pc = "score"
    /\ \E ansi \in BOOLEAN :
          IF \E r \in df_joined : score_columns(r, ansi).raises # ""
          THEN /\ pc' = "failed"
               /\ error' = "DIVIDE_BY_ZERO"
               /\ df_joined' = df_joined
          ELSE /\ pc' = "classify"
               /\ error' = error
               /\ df_joined' = {score_columns(r, ansi).value : r \in df_joined}
    /\ UNCHANGED <<df, df_resultado, df_ingestao, df_log,
                   cpfs_duplicados, df_unicos, args, ret>>

\* df_resultado = df_joined.withColumn("status_final", ...)
Classify ==
    /\ pc = "classify"
    /\ df_resultado' = {[a |-> r.a, b |-> r.b, score_final |-> r.score_final,
                         status_final |-> status_final(r)] : r \in df_joined}
    /\ pc' = "select"
    /\ UNCHANGED <<error, df, df_joined, df_ingestao, df_log,
                   cpfs_duplicados, df_unicos, args, ret>>

\* df_resultado = df_resultado.select(...)
Select ==
    /\ pc = "select"
    /\ df_resultado' = {[id_a |-> r.a.id, id_b |-> r.b.id, cpf |-> r.a.cpf,
                         score_final |-> r.score_final,
                         status_final |-> r.status_final] : r \in df_resultado}
    /\ pc' = "filter"
    /\ UNCHANGED <<error, df, df_joined, df_ingestao, df_log,
                   cpfs_duplicados, df_unicos, args, ret>>

\* df_ingestao = filter(status_final == "OK"); df_log = filter(startswith("Q"))
Filter ==
    /\ pc = "filter"
    /\ df_ingestao' = {r \in df_resultado : SqlEq(r.status_final, OK) = "T"}
    /\ df_log' = {r \in df_resultado : startswith(r.status_final, <<"Q">>)}
    /\ pc' = "unicos"
    /\ UNCHANGED <<error, df, df_joined, df_resultado,
                   cpfs_duplicados, df_unicos, args, ret>>

\* df.join(keys, on="cpf", how="left_anti"): the rows of df whose cpf equals
\* no key; a NULL cpf equals none
left_anti(left, keys) ==
    {r \in left : ~\E k \in keys : SqlEq(r.cpf, k) = "T"}

\* cpfs_duplicados = df_resultado.select("cpf").distinct(); df_unicos = ...
Unicos ==
    /\ pc = "unicos"
    /\ cpfs_duplicados' = {r.cpf : r \in df_resultado}
    /\ df_unicos' = left_anti(df, {r.cpf : r \in df_resultado})
    /\ pc' = "union"
    /\ UNCHANGED <<error, df, df_joined, df_resultado, df_ingestao, df_log,
                   args, ret>>

\* DataFrame.unionByName with allowMissingColumns=False: the two sides must
\* have the same column names
unionByName(left, leftColumns, right, rightColumns) ==
    IF leftColumns = rightColumns THEN Return(left \cup right)
    ELSE Raise("AnalysisException")

\* df_ingestao = df_ingestao.unionByName(df_unicos)
Union ==
    /\ pc = "union"
    /\ LET u == unionByName(df_ingestao, ColumnsResultado, df_unicos, ColumnsDf)
       IN  IF u.raises # ""
           THEN /\ pc' = "failed"
                /\ error' = u.raises
                /\ df_ingestao' = df_ingestao
           ELSE /\ pc' = "done"
                /\ error' = error
                /\ df_ingestao' = u.value
    /\ UNCHANGED <<df, df_joined, df_resultado, df_log,
                   cpfs_duplicados, df_unicos, args, ret>>

Next ==
    \/ ReadRow
    \/ WithAssinatura
    \/ Join
    \/ Score
    \/ Classify
    \/ Select
    \/ Filter
    \/ Unicos
    \/ Union

Spec == Init /\ [][Next]_vars

----------------------------------------------------------------------------
(* Properties of the script *)

Joined ==
    \/ pc \in {"score", "classify", "select", "filter", "unicos", "union", "done"}
    \/ error = "AnalysisException"

Scored ==
    \/ pc \in {"classify", "select", "filter", "unicos", "union", "done"}
    \/ error = "AnalysisException"

Filtered == pc \in {"unicos", "union", "done"} \/ error = "AnalysisException"

UnionRan == pc = "done" \/ error = "AnalysisException"

\* C3: a pair (a, b) is emitted iff a and b have the same non-null key,
\* a.id < b.id and different signatures: no pair with a.id >= b.id or equal
\* signatures, and every such unordered pair once, smaller id first.
C3_PairGenerator ==
    Joined =>
        /\ \A x, y \in df : x.id = y.id => x = y
        /\ \A r \in df_joined :
              /\ r.a \in df /\ r.b \in df
              /\ r.a.id < r.b.id
              /\ r.a.cpf # None /\ r.b.cpf # None /\ r.a.cpf = r.b.cpf
              /\ r.a.assinatura # r.b.assinatura
        /\ \A x, y \in df :
              (x.id < y.id /\ x.cpf # None /\ x.cpf = y.cpf
                  /\ x.assinatura # y.assinatura)
              => /\ Cardinality({r \in df_joined : r.a = x /\ r.b = y}) = 1
                 /\ ~\E r \in df_joined : r.a = y /\ r.b = x

\* the join emitted a pair
C3_Witness ==
    /\ Joined
    /\ \E r \in df_joined : r.a.id < r.b.id /\ r.a.cpf = r.b.cpf

InUnit(f) == ~f.null /\ f.den > 0 /\ 0 <= f.num /\ f.num <= f.den

\* C8: for every emitted pair jaccard is in [0,1], edit_distance <= len_max,
\* edit_score = 1 - edit_distance/len_max is in [0,1] and composite_score =
\* 0.75*jaccard + 0.25*edit_score is in [0,1] (0.8 and 0.9 give 0.825,
\* 0.5 and 0.5 give 0.5).
C8_ScoresInUnitInterval ==
    /\ Scored =>
          \A r \in df_joined :
              /\ InUnit(r.jaccard)
              /\ r.jaccard.num * Cardinality(TokenSet(r.a.assinatura)
                                                \cup TokenSet(r.b.assinatura))
                    = r.jaccard.den * Cardinality(TokenSet(r.a.assinatura)
                                                      \cap TokenSet(r.b.assinatura))
              /\ r.len_max = Max(Len(r.a.assinatura), Len(r.b.assinatura))
              /\ 0 <= r.lev_dist /\ r.lev_dist <= r.len_max
              /\ InUnit(r.lev_score)
              /\ r.lev_score.num * r.len_max
                    = (r.len_max - r.lev_dist) * r.lev_score.den
              /\ InUnit(r.score_final)
              /\ 4 * r.score_final.num * r.jaccard.den * r.lev_score.den
                    = (3 * r.jaccard.num * r.lev_score.den
                          + r.lev_score.num * r.jaccard.den) * r.score_final.den
    /\ LET e1 == FAdd(FMul(W_JACCARD, Frac(4, 5)), FMul(W_LEV, Frac(9, 10)))
           e2 == FAdd(FMul(W_JACCARD, Frac(1, 2)), FMul(W_LEV, Frac(1, 2)))
       IN  e1.num * 1000 = 825 * e1.den /\ e2.num * 2 = e2.den

\* a pair of signatures of different lengths sharing some tokens was scored
C8_Witness ==
    /\ Scored
    /\ \E r \in df_joined :
          /\ Len(r.a.assinatura) # Len(r.b.assinatura)
          /\ 0 < r.jaccard.num /\ r.jaccard.num < r.jaccard.den
          /\ 0 < r.lev_dist

\* C5: the log set holds every classified pair whose status is not OK
\* (Q001, Q002, Q006 or VALIDAR_NOMES) and no OK pair.
C5_LogHasEveryNonMatch ==
    Filtered =>
        /\ \A r \in df_resultado : r.status_final # OK => r \in df_log
        /\ \A r \in df_log : r \in df_resultado /\ r.status_final # OK

\* the log set holds exactly the pairs whose status starts with Q
LogHoldsQCodes ==
    Filtered => df_log = {r \in df_resultado : r.status_final \in {Q001, Q002, Q006}}

PairKeys == {r.a.cpf : r \in df_joined}

InIngestao(r) == \E x \in df_ingestao : DOMAIN x = DOMAIN r /\ x = r

InLog(r) == \E x \in df_log : x.id_a = r.id \/ x.id_b = r.id

\* C6: the records added to the ingestion set as unique are exactly the
\* records whose key is the key of no generated pair: each of them is in
\* the ingestion set with its full payload and in no row of the log set,
\* and no record whose key produced a pair is added.
C6_UniqueRecordsIngested ==
    UnionRan =>
        /\ df_unicos = {r \in df : r.cpf \notin PairKeys}
        /\ \A r \in df :
              r.cpf \notin PairKeys => InIngestao(r) /\ ~InLog(r)
        /\ \A r \in df : r.cpf \in PairKeys => ~InIngestao(r)

\* the anti-join keeps exactly the records whose key produced no pair
UnicosIsAntiJoin ==
    (pc = "union" \/ UnionRan) =>
        /\ df_unicos = {r \in df : r.cpf \notin PairKeys}
        /\ \A r \in df_unicos : ~InLog(r)

\* C10: a record with a null key is in no generated pair, so no classified
\* pair has status Q001, and every null-key record is put in the ingestion
\* set as a unique record and in no row of the log set.
C10_NullKeyRouted ==
    UnionRan =>
        /\ \A r \in df_joined : r.a.cpf # None /\ r.b.cpf # None
        /\ \A r \in df_resultado : r.status_final # Q001
        /\ \A r \in df : r.cpf = None => (r \in df_unicos /\ InIngestao(r) /\ ~InLog(r))

\* null keys are in no pair, never classified Q001, and kept by the anti-join
NullKeyNeverPaired ==
    /\ Joined => \A r \in df_joined : r.a.cpf # None /\ r.b.cpf # None
    /\ Filtered => \A r \in df_resultado : r.status_final # Q001
    /\ (pc = "union" \/ UnionRan) =>
          \A r \in df : r.cpf = None => (r \in df_unicos /\ ~InLog(r))

====
